---- MODULE Spec2Model ----
(***************************************************************************)
(* Model of github_backup.BackupManager: backup_all_repositories,          *)
(* backup_repository and backup_specific_repositories, with the outcomes   *)
(* of the external collaborators (GitHub listing / lookup, temporary       *)
(* directory, git clone, zip, Dropbox create_folder / upload_file) drawn   *)
(* nondeterministically.                                                   *)
(***************************************************************************)
EXTENDS Integers, Sequences, FiniteSets, TLC

\* ---------------------------------------------------------------- bounds
NumNames == 2        \* repository names are 1..NumNames
MaxListing == 2      \* longest listing returned by GitHub
MaxRequested == 2    \* longest repo_names argument

Names == 1..NumNames

\* Repository dataclass: only the fields the orchestration reads.
Repository == [name : Names, private : BOOLEAN]

NoRepo == [name |-> 0, private |-> FALSE]

\* Sequences of at most n elements of S.
SeqUpTo(S, n) == UNION {[1..k -> S] : k \in 0..n}

\* Names are unique within one account's listing.
Listings ==
  {l \in SeqUpTo(Repository, MaxListing) :
     \A i, j \in 1..Len(l) : l[i].name = l[j].name => i = j}

VARIABLES
  mode,            \* "all": backup_all_repositories, "specific": backup_specific_repositories
  remote,          \* the account's repositories on GitHub, in listing order
  username,        \* TRUE iff a username argument was given
  exclude_repos,   \* argument of backup_all_repositories
  include_private, \* argument of backup_all_repositories
  repo_names,      \* argument of backup_specific_repositories
  pc,              \* position of the running call
  results,         \* the results dictionary
  repos,           \* listing fetched by backup_all_repositories
  filtered_repos,  \* repositories that passed the filter
  idx,             \* index of the current loop iteration
  repo,            \* argument of the backup_repository call in flight
  temp_dir,        \* TRUE while the TemporaryDirectory exists
  success,         \* value returned by backup_repository
  steps,           \* calls made by the current backup_repository attempt
  attempts,        \* names passed to backup_repository, in call order
  list_calls,      \* number of get_user_repositories calls
  list_result,     \* "none", or how the last get_user_repositories call ended
  repo_result,     \* "none", or how the last get_repository call ended
  folders,         \* names whose folder {backup_folder}/{name} exists in Dropbox
  folder_ret,      \* "none", or what the last create_folder call returned
  exit_code,       \* -1 while the command runs, then the process exit code
  \* GitHubClient.get_user_repositories
  gh_pages,        \* the pages the API serves, page p being gh_pages[p]
  gh_pc,           \* "idle", "loop", "returned" or "raised"
  page,            \* the local variable page
  gh_repos,        \* the local list repos
  gh_requests,     \* requests sent: their page number and whether they succeeded
  gh_ret,          \* the returned list
  \* DropboxClient.upload_file / _upload_large_file
  file_size,       \* size of the local file, in MiB
  up_pc,           \* "idle", "open", "simple", "start", "loop", "true" or "false"
  tell,            \* file_obj.tell()
  cursor,          \* cursor.offset
  up_calls         \* Dropbox calls made: operation, bytes sent, cursor offset passed

ghvars == <<gh_pages, gh_pc, page, gh_repos, gh_requests, gh_ret>>

upvars == <<file_size, up_pc, tell, cursor, up_calls>>

bmvars == <<mode, remote, username, exclude_repos, include_private, repo_names,
            pc, results, repos, filtered_repos, idx, repo, temp_dir, success,
            steps, attempts, list_calls, list_result, repo_result, folders,
            folder_ret, exit_code>>

vars == <<bmvars, ghvars, upvars>>

\* The client loops are followed in their own specifications; in a run of the
\* backup manager their calls are single steps.
GhIdle ==
  /\ gh_pages = <<>>
  /\ gh_pc = "idle"
  /\ page = 1
  /\ gh_repos = <<>>
  /\ gh_requests = <<>>
  /\ gh_ret = <<>>

UpIdle ==
  /\ file_size = 0
  /\ up_pc = "idle"
  /\ tell = 0
  /\ cursor = 0
  /\ up_calls = <<>>

args == <<mode, remote, username, exclude_repos, include_private, repo_names>>

\* The results dictionary of both entry points; `error` is TRUE when the
\* dictionary has an 'error' key.
InitResults ==
  [total_repos |-> 0, requested_repos |-> 0, successful_backups |-> 0,
   failed_backups |-> 0, skipped_repos |-> 0, not_found_repos |-> 0,
   backup_details |-> <<>>, error |-> FALSE]

Init ==
  /\ mode \in {"all", "specific"}
  /\ remote \in Listings
  /\ IF mode = "all"
       THEN \* username only selects the URL of the listing request
            /\ username = FALSE
            /\ exclude_repos \in SUBSET Names
            /\ include_private \in BOOLEAN
            /\ repo_names = <<>>
            /\ pc = "list"
            /\ results = InitResults
       ELSE /\ username \in BOOLEAN
            /\ exclude_repos = {}
            /\ include_private = TRUE
            /\ repo_names \in SeqUpTo(Names, MaxRequested)
            /\ pc = "loop"
            /\ results = [InitResults EXCEPT !.requested_repos = Len(repo_names)]
  /\ repos = <<>>
  /\ filtered_repos = <<>>
  /\ idx = 1
  /\ repo = NoRepo
  /\ temp_dir = FALSE
  /\ success = FALSE
  /\ steps = <<>>
  /\ attempts = <<>>
  /\ list_calls = 0
  /\ list_result = "none"
  /\ repo_result = "none"
  /\ folders = {}
  /\ folder_ret = "none"
  /\ exit_code = -1
  /\ GhIdle
  /\ UpIdle

\* ------------------------------------------------- backup_all_repositories

\* Variant: total_repos counts only the repositories that are not excluded.
TotalReposNotExcluded(l) == Len(SelectSeq(l, LAMBDA r : r.name \notin exclude_repos))

\* results['total_repos'] = len(repos)
TotalRepos(l) == Len(l)

\* if repo.name in exclude_repos
IsExcluded(r) == r.name \in exclude_repos

\* Variant: the privacy test is inverted.
IsPrivateSkipInverted(r) == ~include_private /\ ~r.private

\* if not include_private and repo.private
IsPrivateSkip(r) == ~include_private /\ r.private

\* Variant: the exclusion branch does not `continue`, so the privacy branch
\* counts the same repository again.
SkipCountNoContinue(r) ==
  (IF IsExcluded(r) THEN 1 ELSE 0) + (IF IsPrivateSkip(r) THEN 1 ELSE 0)

\* Increment of skipped_repos for one repository of the listing: the
\* exclusion check comes first and `continue`s, so a repository matching both
\* checks is counted once.
SkipCount(r) == IF IsExcluded(r) THEN 1 ELSE IF IsPrivateSkip(r) THEN 1 ELSE 0

\* Variant: the handler logs the exception and does not set the error field.
OnRunErrorSwallowed(res) == res

\* except Exception as e: results['error'] = str(e)
OnRunError(res) == [res EXCEPT !.error = TRUE]

\* Variant: the detail is appended once before and once after the counter.
RecordDetailTwice(res, r, ok) ==
  [res EXCEPT !.backup_details =
                 Append(Append(@, [repo_name |-> r.name, success |-> ok, error |-> FALSE]),
                        [repo_name |-> r.name, success |-> ok, error |-> FALSE]),
              !.successful_backups = IF ok THEN @ + 1 ELSE @,
              !.failed_backups = IF ok THEN @ ELSE @ + 1]

\* Variant: the else branch is missing, successful_backups counts every attempt.
RecordDetailNoElse(res, r, ok) ==
  [res EXCEPT !.backup_details =
                 Append(@, [repo_name |-> r.name, success |-> ok, error |-> FALSE]),
              !.successful_backups = @ + 1]

\* backup_detail appended after backup_repository returned, and the counter.
RecordDetail(res, r, ok) ==
  [res EXCEPT !.backup_details =
                 Append(@, [repo_name |-> r.name, success |-> ok, error |-> FALSE]),
              !.successful_backups = IF ok THEN @ + 1 ELSE @,
              !.failed_backups = IF ok THEN @ ELSE @ + 1]

\* repos = self.github_client.get_user_repositories(username): the listing,
\* or an exception that the outer handler turns into the error field.
ListAll ==
  /\ pc = "list"
  /\ mode = "all"
  /\ list_calls' = list_calls + 1
  /\ \E ok \in BOOLEAN :
       IF ok
         THEN /\ list_result' = "ok"
              /\ repos' = remote
              /\ results' = [results EXCEPT !.total_repos = TotalRepos(remote)]
              /\ pc' = "filter"
         ELSE /\ list_result' = "raised"
              /\ repos' = repos
              /\ results' = OnRunError(results)
              /\ pc' = "done"
  /\ UNCHANGED <<args, filtered_repos, idx, repo, temp_dir, success, steps, attempts>>
  /\ UNCHANGED <<repo_result, folders, folder_ret, exit_code>>
  /\ UNCHANGED <<ghvars, upvars>>

\* One iteration of `for repo in repos` of the filter, or its exit.
FilterStep ==
  /\ pc = "filter"
  /\ IF idx <= Len(repos)
       THEN LET r == repos[idx]
                n == SkipCount(r)
            IN /\ results' = [results EXCEPT !.skipped_repos = @ + n]
               /\ filtered_repos' = IF n = 0 THEN Append(filtered_repos, r)
                                             ELSE filtered_repos
               /\ idx' = idx + 1
               /\ pc' = pc
       ELSE /\ pc' = "loop"
            /\ idx' = 1
            /\ UNCHANGED <<results, filtered_repos>>
  /\ UNCHANGED <<args, repos, repo, temp_dir, success, steps, attempts, list_calls, list_result>>
  /\ UNCHANGED <<repo_result, folders, folder_ret, exit_code>>
  /\ UNCHANGED <<ghvars, upvars>>

\* Variant: the loop takes the repositories from the end of filtered_repos.
BackupLoopAllReversed ==
  /\ pc = "loop"
  /\ mode = "all"
  /\ IF idx <= Len(filtered_repos)
       THEN /\ repo' = filtered_repos[Len(filtered_repos) - idx + 1]
            /\ attempts' = Append(attempts, filtered_repos[Len(filtered_repos) - idx + 1].name)
            /\ steps' = <<>>
            /\ pc' = "tempdir"
       ELSE /\ pc' = "done"
            /\ UNCHANGED <<repo, attempts, steps>>
  /\ UNCHANGED <<args, results, repos, filtered_repos, idx, temp_dir, success,
                 list_calls, list_result>>
  /\ UNCHANGED <<repo_result, folders, folder_ret, exit_code>>
  /\ UNCHANGED <<ghvars, upvars>>

\* Head of `for repo in filtered_repos`: call backup_repository(repo), or
\* leave the loop and return results.
BackupLoopAll ==
  /\ pc = "loop"
  /\ mode = "all"
  /\ IF idx <= Len(filtered_repos)
       THEN /\ repo' = filtered_repos[idx]
            /\ attempts' = Append(attempts, filtered_repos[idx].name)
            /\ steps' = <<>>
            /\ pc' = "tempdir"
       ELSE /\ pc' = "done"
            /\ UNCHANGED <<repo, attempts, steps>>
  /\ UNCHANGED <<args, results, repos, filtered_repos, idx, temp_dir, success,
                 list_calls, list_result>>
  /\ UNCHANGED <<repo_result, folders, folder_ret, exit_code>>
  /\ UNCHANGED <<ghvars, upvars>>

\* ------------------------------------------- backup_specific_repositories

\* next((r for r in all_repos if r.name == repo_name), None)
Lookup(all_repos, name) ==
  IF \E i \in 1..Len(all_repos) : all_repos[i].name = name
    THEN all_repos[CHOOSE i \in 1..Len(all_repos) :
                     /\ all_repos[i].name = name
                     /\ \A j \in 1..(i - 1) : all_repos[j].name # name]
    ELSE NoRepo

\* Variant: an absent name is counted as a failed backup as well.
OnNotFoundAlsoFailed(res) ==
  [res EXCEPT !.not_found_repos = @ + 1, !.failed_backups = @ + 1]

\* if not user_repo: results['not_found_repos'] += 1; continue
OnNotFound(res) == [res EXCEPT !.not_found_repos = @ + 1]

\* Variant: the handler records the detail and forgets the counter.
OnExceptionNoCount(res, name) ==
  [res EXCEPT !.backup_details =
                 Append(@, [repo_name |-> name, success |-> FALSE, error |-> TRUE])]

\* except Exception as e: failed_backups += 1 and a detail carrying the error.
OnException(res, name) ==
  [res EXCEPT !.failed_backups = @ + 1,
              !.backup_details =
                 Append(@, [repo_name |-> name, success |-> FALSE, error |-> TRUE])]

\* Head and resolution part of `for repo_name in repo_names`.
ResolveSpecific ==
  /\ pc = "loop"
  /\ mode = "specific"
  /\ IF idx > Len(repo_names)
       THEN /\ pc' = "done"
            /\ UNCHANGED <<results, idx, repo, steps, attempts, list_calls, list_result,
                           repo_result>>
       ELSE LET name == repo_names[idx]
                found == Lookup(remote, name)
            IN \E ok \in BOOLEAN :
                 /\ list_calls' = IF username THEN list_calls ELSE list_calls + 1
                 /\ list_result' = IF username THEN list_result
                                   ELSE IF ok THEN "ok" ELSE "raised"
                 /\ repo_result' = IF ~username THEN repo_result
                                   ELSE IF ~ok THEN "error"
                                   ELSE IF found = NoRepo THEN "not_found" ELSE "ok"
                 /\ IF ~ok \/ (username /\ found = NoRepo)
                      THEN \* get_repository / get_user_repositories raised
                           /\ results' = OnException(results, name)
                           /\ idx' = idx + 1
                           /\ pc' = pc
                           /\ UNCHANGED <<repo, steps, attempts>>
                      ELSE IF found = NoRepo
                        THEN /\ results' = OnNotFound(results)
                             /\ idx' = idx + 1
                             /\ pc' = pc
                             /\ UNCHANGED <<repo, steps, attempts>>
                        ELSE /\ repo' = found
                             /\ attempts' = Append(attempts, found.name)
                             /\ steps' = <<>>
                             /\ pc' = "tempdir"
                             /\ UNCHANGED <<results, idx>>
  /\ UNCHANGED <<args, repos, filtered_repos, temp_dir, success>>
  /\ UNCHANGED <<folders, folder_ret, exit_code>>
  /\ UNCHANGED <<ghvars, upvars>>

\* ------------------------------------------------------ backup_repository

CloneResults == {"ok", "nonzero", "timeout", "error"}
ZipResults == {"ok", "error"}
\* create_folder: True (created), True (conflict: already exists), False
\* (other ApiError), or an exception that is not an ApiError.
FolderResults == {"created", "conflict", "false", "error"}

\* What the Dropbox service does with files_create_folder_v2: it answers
\* ("none"), fails with an ApiError that is not a path conflict ("api"), or
\* the request fails with an exception that is not an ApiError ("other").
FolderFaults == {"none", "api", "other"}

\* DropboxClient.create_folder: which branch the call takes.
CreateFolderResult(fs, path, fault) ==
  IF fault = "api" THEN "false"
  ELSE IF fault = "other" THEN "error"
  ELSE IF path \in fs THEN "conflict"
  ELSE "created"

\* The remote folder set after the call.
FoldersAfter(fs, path, res) == IF res = "created" THEN fs \cup {path} ELSE fs

\* Variant: the path-conflict ApiError is reported like any other ApiError.
CreateFolderReturnConflictFails(res) ==
  IF res = "created" THEN "true"
  ELSE IF res \in {"conflict", "false"} THEN "false"
  ELSE "raised"

\* The value create_folder returns: True when the folder was created or
\* already exists, False for another ApiError; other exceptions propagate.
CreateFolderReturn(res) ==
  IF res \in {"created", "conflict"} THEN "true"
  ELSE IF res = "false" THEN "false"
  ELSE "raised"

\* Variant: clone_result.returncode is not checked.
AfterCloneNoReturncodeCheck(res) ==
  IF res \in {"ok", "nonzero"} THEN "zip" ELSE "returned"

\* Position after the clone: returncode != 0, TimeoutExpired and any other
\* exception all return False.
AfterClone(res) == IF res = "ok" THEN "zip" ELSE "returned"

\* Variant: the folder is not ensured before the upload.
AfterZipSkipsFolder(res) == IF res = "ok" THEN "upload" ELSE "returned"

\* Position after the zip file was written, or the zip raised.
AfterZip(res) == IF res = "ok" THEN "folder" ELSE "returned"

\* Position after self.dropbox_client.create_folder(folder_path): its return
\* value is discarded; only an exception leaves the try block.
AfterFolder(res) == IF res = "error" THEN "returned" ELSE "upload"

\* with tempfile.TemporaryDirectory() as temp_dir: stands outside the try
\* block, so a failure to create the directory leaves backup_repository as an
\* exception, handled by whichever caller is running.
TempDir ==
  /\ pc = "tempdir"
  /\ \E ok \in BOOLEAN :
       IF ok
         THEN /\ temp_dir' = TRUE
              /\ pc' = "clone"
              /\ UNCHANGED <<results, idx>>
         ELSE /\ temp_dir' = FALSE
              /\ IF mode = "all"
                   THEN /\ results' = OnRunError(results)
                        /\ pc' = "done"
                        /\ idx' = idx
                   ELSE /\ results' = OnException(results, repo_names[idx])
                        /\ pc' = "loop"
                        /\ idx' = idx + 1
  /\ UNCHANGED <<args, repos, filtered_repos, repo, success, steps, attempts, list_calls, list_result>>
  /\ UNCHANGED <<repo_result, folders, folder_ret, exit_code>>
  /\ UNCHANGED <<ghvars, upvars>>

\* Variant: the directory is made with mkdtemp and an early return leaves it.
StepKeepsTempDir(op, res, next) ==
  /\ steps' = Append(steps, [op |-> op, res |-> res])
  /\ pc' = next
  /\ IF next = "returned"
       THEN /\ success' = FALSE
            /\ temp_dir' = temp_dir
       ELSE UNCHANGED <<success, temp_dir>>
  /\ UNCHANGED <<args, results, repos, filtered_repos, idx, repo, attempts, list_calls, list_result>>
  /\ UNCHANGED <<repo_result, exit_code>>
  /\ UNCHANGED <<ghvars, upvars>>

\* A step of the try block that may end the call with False; leaving the
\* with block removes the temporary directory.
Step(op, res, next) ==
  /\ steps' = Append(steps, [op |-> op, res |-> res])
  /\ pc' = next
  /\ IF next = "returned"
       THEN /\ success' = FALSE
            /\ temp_dir' = FALSE
       ELSE UNCHANGED <<success, temp_dir>>
  /\ UNCHANGED <<args, results, repos, filtered_repos, idx, repo, attempts, list_calls, list_result>>
  /\ UNCHANGED <<repo_result, exit_code>>
  /\ UNCHANGED <<ghvars, upvars>>

\* subprocess.run(['git', 'clone', '--mirror', ...], timeout=300)
Clone ==
  /\ pc = "clone"
  /\ \E res \in CloneResults : Step("clone", res, AfterClone(res))
  /\ UNCHANGED <<folders, folder_ret>>

\* zipfile.ZipFile(zip_path, 'w', ZIP_DEFLATED) over repo_path.rglob('*')
Zip ==
  /\ pc = "zip"
  /\ \E res \in ZipResults : Step("zip", res, AfterZip(res))
  /\ UNCHANGED <<folders, folder_ret>>

\* self.dropbox_client.create_folder(folder_path); the folder path is
\* {backup_folder}/{repo.name}, identified here by repo.name.
CreateFolder ==
  /\ pc = "folder"
  /\ \E fault \in FolderFaults :
       LET res == CreateFolderResult(folders, repo.name, fault)
       IN /\ Step("folder", res, AfterFolder(res))
          /\ folders' = FoldersAfter(folders, repo.name, res)
          /\ folder_ret' = CreateFolderReturn(res)

\* success = self.dropbox_client.upload_file(...); return success
Upload ==
  /\ pc = "upload"
  /\ \E ok \in BOOLEAN :
       /\ steps' = Append(steps, [op |-> "upload", res |-> IF ok THEN "true" ELSE "false"])
       /\ success' = ok
  /\ temp_dir' = FALSE
  /\ pc' = "returned"
  /\ UNCHANGED <<args, results, repos, filtered_repos, idx, repo, attempts, list_calls, list_result>>
  /\ UNCHANGED <<repo_result, folders, folder_ret, exit_code>>
  /\ UNCHANGED <<ghvars, upvars>>

\* The caller records the returned value and moves to the next iteration.
RecordOutcome ==
  /\ pc = "returned"
  /\ results' = RecordDetail(results, repo, success)
  /\ idx' = idx + 1
  /\ pc' = "loop"
  /\ UNCHANGED <<args, repos, filtered_repos, repo, temp_dir, success, steps, attempts, list_calls, list_result>>
  /\ UNCHANGED <<repo_result, folders, folder_ret, exit_code>>
  /\ UNCHANGED <<ghvars, upvars>>

\* ------------------------------------------------------------------ cli

\* backup_all: if results['failed_backups'] > 0: sys.exit(1)
ExitCodeAll(res) == IF res.failed_backups > 0 THEN 1 ELSE 0

\* backup_repos: if failed_backups > 0 or not_found_repos > 0: sys.exit(1)
ExitCodeRepos(res) ==
  IF res.failed_backups > 0 \/ res.not_found_repos > 0 THEN 1 ELSE 0

\* The command prints the summary of the returned results and exits.
CliExit ==
  /\ pc = "done"
  /\ exit_code = -1
  /\ exit_code' = IF mode = "all" THEN ExitCodeAll(results) ELSE ExitCodeRepos(results)
  /\ UNCHANGED <<args, pc, results, repos, filtered_repos, idx, repo, temp_dir, success,
                 steps, attempts, list_calls, list_result, repo_result, folders,
                 folder_ret>>
  /\ UNCHANGED <<ghvars, upvars>>

Next ==
  \/ ListAll
  \/ FilterStep
  \/ BackupLoopAll
  \/ ResolveSpecific
  \/ TempDir
  \/ Clone
  \/ Zip
  \/ CreateFolder
  \/ Upload
  \/ RecordOutcome
  \/ CliExit

Spec == Init /\ [][Next]_vars

\* ------------------------------------------------------------ properties

details == results.backup_details

\* The filter conditions, stated over the arguments of the run.
Excluded(r) == r.name \in exclude_repos
PrivateHidden(r) == (~include_private) /\ r.private
ShouldSkip(r) == Excluded(r) \/ PrivateHidden(r)

NamesOf(l) == [i \in 1..Len(l) |-> l[i].name]
DetailNames == [i \in 1..Len(details) |-> details[i].repo_name]
InFiltered(r) == \E j \in 1..Len(filtered_repos) : filtered_repos[j] = r
Absent(name) == \A i \in 1..Len(remote) : remote[i].name # name

StepFailed(s) == s.res \in {"nonzero", "timeout", "error", "false"}
CloneFailed ==
  /\ Len(steps) >= 1
  /\ steps[1].op = "clone"
  /\ steps[1].res # "ok"

\* C1: when backup_all_repositories returns, total_repos equals
\* successful_backups + failed_backups + skipped_repos, whatever the listing,
\* the filters and the per-repository results were.
C1_TotalIsSum ==
  (mode = "all" /\ pc = "done") =>
     results.total_repos =
        results.successful_backups + results.failed_backups + results.skipped_repos

\* C2: in backup_all_repositories, no failure of one repository's backup
\* aborts the run: at the return, the repositories of the listing that are not
\* skipped were each passed to backup_repository exactly once, in order, and
\* each has exactly one outcome in backup_details.
C2_EveryRepoAttemptedOnce ==
  (mode = "all" /\ pc = "done") =>
     LET expected == NamesOf(SelectSeq(repos, LAMBDA r : ~ShouldSkip(r)))
     IN /\ attempts = expected
        /\ DetailNames = expected

\* C3: backup_repository returns true only if clone, archive, folder-ensure
\* and upload all succeeded; a failed step (create_folder returning false
\* included) is the last step invoked and the result is false.
C3_TrueOnlyIfAllStepsSucceeded ==
  pc = "returned" =>
     /\ success =>
          /\ Len(steps) = 4
          /\ steps[1] = [op |-> "clone", res |-> "ok"]
          /\ steps[2] = [op |-> "zip", res |-> "ok"]
          /\ steps[3].op = "folder" /\ steps[3].res \in {"created", "conflict"}
          /\ steps[4] = [op |-> "upload", res |-> "true"]
     /\ \A i \in 1..Len(steps) :
          StepFailed(steps[i]) => (i = Len(steps) /\ ~success)

\* C4: when the clone step fails (non-zero exit, timeout), it is the only
\* step of the attempt (no retry, no archive, no folder-ensure, no upload),
\* backup_repository returns false, and the caller records the repository
\* with success = false and counts it as failed.
C4_CloneFailureStopsAttempt ==
  /\ [](CloneFailed =>
          /\ Len(steps) = 1
          /\ pc \in {"returned", "loop", "done"}
          /\ pc = "returned" => ~success)
  /\ [][(pc = "returned" /\ CloneFailed) =>
          /\ details' = Append(details, [repo_name |-> repo.name,
                                         success |-> FALSE, error |-> FALSE])
          /\ results'.failed_backups = results.failed_backups + 1
          /\ results'.successful_backups = results.successful_backups]_vars

C4_Witness ==
  /\ CloneFailed
  /\ steps[1].res = "timeout"
  /\ pc = "loop"
  /\ Len(details) = 2
  /\ details[1].success
  /\ ~details[2].success

\* C5: in backup_all_repositories an excluded repository is counted as
\* skipped exactly once (also when it is private and include_private is
\* false), is never passed to backup_repository and has no part in
\* successful_backups or failed_backups.
C5_ExcludedSkippedOnce ==
  mode = "all" =>
     /\ \A i \in 1..Len(attempts) : attempts[i] \notin exclude_repos
     /\ \A i \in 1..Len(details) : details[i].repo_name \notin exclude_repos
     /\ pc = "filter" =>
          /\ results.skipped_repos =
               Cardinality({i \in 1..(idx - 1) : i <= Len(repos) /\ ShouldSkip(repos[i])})
          /\ results.successful_backups = 0
          /\ results.failed_backups = 0
     /\ pc \notin {"list", "filter"} =>
          results.skipped_repos =
             Cardinality({i \in 1..Len(repos) : ShouldSkip(repos[i])})
     /\ results.successful_backups + results.failed_backups <=
          Cardinality({i \in 1..Len(repos) : ~Excluded(repos[i])})

C5_Witness ==
  /\ mode = "all"
  /\ pc = "done"
  /\ ~include_private
  /\ Len(repos) = 2
  /\ Excluded(repos[1]) /\ repos[1].private
  /\ results.skipped_repos = 1
  /\ results.successful_backups = 1

\* C6 as stated: with include_private = false, every private repository is
\* skipped and no public repository is skipped.
C6_Original ==
  (mode = "all" /\ ~include_private /\ pc \notin {"list", "filter"}) =>
     \A i \in 1..Len(repos) :
        /\ repos[i].private => ~InFiltered(repos[i])
        /\ ~repos[i].private => InFiltered(repos[i])

\* C6 amended: with include_private = false, every private repository is
\* skipped (kept out of filtered_repos and never attempted) and no public
\* repository is skipped unless its name is in the exclude list.
C6_PrivateSkippedPublicKept ==
  (mode = "all" /\ ~include_private /\ pc \notin {"list", "filter"}) =>
     \A i \in 1..Len(repos) :
        /\ repos[i].private =>
             /\ ~InFiltered(repos[i])
             /\ \A k \in 1..Len(attempts) : attempts[k] # repos[i].name
        /\ (~repos[i].private /\ ~Excluded(repos[i])) => InFiltered(repos[i])

C6_Witness ==
  /\ mode = "all"
  /\ ~include_private
  /\ pc = "done"
  /\ exclude_repos = {}
  /\ Len(repos) = 2
  /\ repos[1].private /\ ~repos[2].private
  /\ attempts = <<repos[2].name>>
  /\ results.skipped_repos = 1

\* C7: if the listing call of backup_all_repositories fails, the run aborts:
\* backup_repository is never invoked, results has the error field,
\* successful_backups is 0 and backup_details is empty.
C7_ListingFailureAborts ==
  (mode = "all" /\ list_result = "raised") =>
     /\ pc = "done"
     /\ attempts = <<>>
     /\ steps = <<>>
     /\ results.error
     /\ results.successful_backups = 0
     /\ details = <<>>

C7_Witness ==
  /\ mode = "all"
  /\ list_result = "raised"
  /\ pc = "done"
  /\ Len(remote) = 2
  /\ results.error

\* C8: when the listing call succeeds, total_repos equals the number of
\* repositories in the listing, from the fetch to the return, however many
\* are skipped, succeed or fail.
C8_TotalIsListingLength ==
  (mode = "all" /\ list_result = "ok") => results.total_repos = Len(remote)

C8_Witness ==
  /\ mode = "all"
  /\ list_result = "ok"
  /\ pc = "done"
  /\ results.total_repos = 2
  /\ results.skipped_repos = 1
  /\ results.failed_backups = 1

\* C9: when backup_specific_repositories returns, requested_repos (the
\* number of requested names, repeated names included) equals
\* successful_backups + failed_backups + not_found_repos.
C9_RequestedIsSum ==
  mode = "specific" =>
     /\ results.requested_repos = Len(repo_names)
     /\ pc = "done" =>
          results.requested_repos =
             results.successful_backups + results.failed_backups
               + results.not_found_repos

C9_Witness ==
  /\ mode = "specific"
  /\ pc = "done"
  /\ Len(repo_names) = 2
  /\ repo_names[1] = repo_names[2]
  /\ results.successful_backups = 1
  /\ results.failed_backups = 1
  /\ \E i \in 1..Len(details) : details[i].error

\* C10: in backup_specific_repositories without a username, a requested name
\* absent from the fetched listing adds one to not_found_repos, leaves
\* failed_backups and backup_details alone and does not invoke
\* backup_repository; every name passed to backup_repository is in the listing.
C10_AbsentNameNotFound ==
  /\ []((mode = "specific" /\ ~username) =>
          \A k \in 1..Len(attempts) : ~Absent(attempts[k]))
  /\ [][(/\ mode = "specific" /\ ~username
         /\ pc = "loop" /\ idx <= Len(repo_names)
         /\ Absent(repo_names[idx])
         /\ list_result' = "ok")
        => /\ results'.not_found_repos = results.not_found_repos + 1
           /\ results'.failed_backups = results.failed_backups
           /\ results'.successful_backups = results.successful_backups
           /\ details' = details
           /\ attempts' = attempts
           /\ steps' = steps
           /\ pc' = "loop"
           /\ idx' = idx + 1]_vars

C10_Witness ==
  /\ mode = "specific"
  /\ ~username
  /\ pc = "done"
  /\ Len(repo_names) = 2
  /\ Absent(repo_names[1]) /\ ~Absent(repo_names[2])
  /\ results.not_found_repos = 1
  /\ results.failed_backups = 0
  /\ results.successful_backups = 1
  /\ Len(attempts) = 1

\* ------------------------------------------------- properties, C11 to C20

Exited == exit_code >= 0
InAttempt == pc \in {"tempdir", "clone", "zip", "folder", "upload", "returned"}
IsPrefix(a, b) == Len(a) <= Len(b) /\ \A i \in 1..Len(a) : a[i] = b[i]
Occurrences(l, x) == Cardinality({i \in 1..Len(l) : l[i] = x})
LastStep == steps[Len(steps)]
StepOrder == <<"clone", "zip", "folder", "upload">>

\* An exception was raised inside the try block of the attempt that returned.
AttemptRaised ==
  /\ Len(steps) >= 1
  /\ LastStep.res \in {"error", "timeout"}

\* The step taken now ends in the handler of backup_specific_repositories.
RaisedToCaller ==
  \/ /\ pc = "loop" /\ idx <= Len(repo_names)
     /\ \/ username /\ repo_result' \in {"not_found", "error"}
        \/ ~username /\ list_result' = "raised"
  \/ pc = "tempdir" /\ pc' # "tempdir" /\ ~temp_dir'

RecordedAsError(name) ==
  /\ details' = Append(details, [repo_name |-> name, success |-> FALSE, error |-> TRUE])
  /\ results'.failed_backups = results.failed_backups + 1
  /\ results'.successful_backups = results.successful_backups
  /\ results'.not_found_repos = results.not_found_repos
  /\ idx' = idx + 1
  /\ pc' = "loop"

\* C11: in backup_specific_repositories with a username, a requested name
\* whose get_repository lookup fails because the repository does not exist
\* remotely is counted in not_found_repos.
C11_RemoteNotFoundCounted ==
  [][(/\ mode = "specific" /\ username
      /\ pc = "loop" /\ idx <= Len(repo_names)
      /\ repo_result' = "not_found")
     => results'.not_found_repos = results.not_found_repos + 1]_vars

\* C12: in backup_specific_repositories an exception raised while resolving
\* or backing up one name is caught for that name only: it is recorded as a
\* failed outcome carrying an error message, failed_backups grows by one and
\* every later name is still processed.
C12_ExceptionRecordedWithError ==
  /\ [][(mode = "specific" /\ RaisedToCaller) => RecordedAsError(repo_names[idx])]_vars
  /\ [][(mode = "specific" /\ pc = "returned" /\ AttemptRaised)
          => RecordedAsError(repo_names[idx])]_vars
  /\ []((mode = "specific" /\ pc = "done") => idx = Len(repo_names) + 1)

\* C13 as stated: in every run each repository name has at most one outcome
\* in backup_details, also when a targeted run names a repository twice.
C13_Original ==
  \A i, j \in 1..Len(details) : details[i].repo_name = details[j].repo_name => i = j

\* C13 amended: in a full run each repository name has at most one outcome in
\* backup_details; in a targeted run a name has at most as many outcomes as
\* the requested sequence names it.
C13_OneOutcomePerRequest ==
  /\ mode = "all" =>
       \A i, j \in 1..Len(details) :
          details[i].repo_name = details[j].repo_name => i = j
  /\ mode = "specific" =>
       \A n \in Names :
          Occurrences(DetailNames, n) <= Occurrences(repo_names, n)

C13_Witness ==
  /\ mode = "specific"
  /\ pc = "done"
  /\ Len(repo_names) = 2
  /\ repo_names[1] = repo_names[2]
  /\ Len(details) = 2
  /\ details[1].repo_name = details[2].repo_name
  /\ details[1].success /\ details[2].success

\* C14: a failure of the listing call makes the backup-all command end with
\* a non-zero exit code.
C14_ListingFailureExitsNonZero ==
  (mode = "all" /\ list_result = "raised" /\ Exited) => exit_code # 0

\* C15: backup-all and backup-repos exit non-zero whenever an attempted
\* backup failed, and backup-repos exits non-zero whenever a requested
\* repository was not found.
C15_ExitNonZeroOnFailure ==
  Exited =>
     /\ Len(attempts) > results.successful_backups => exit_code # 0
     /\ (mode = "specific" /\ results.not_found_repos > 0) => exit_code # 0

\* C16: the temporary directory of backup_repository exists only while the
\* try block runs: it is gone once the call has returned or raised, and none
\* is left when the next attempt starts.
C16_TempDirRemoved ==
  /\ temp_dir => pc \in {"clone", "zip", "folder", "upload"}
  /\ pc \in {"tempdir", "returned", "loop", "done"} => ~temp_dir

C16_Witness ==
  /\ pc = "tempdir"
  /\ ~temp_dir
  /\ Len(attempts) = 2
  /\ Len(details) = 1
  /\ ~details[1].success
  /\ ~details[1].error

\* C17: create_folder is idempotent: when the service answers, a call on a
\* path that does not exist creates it and returns True, and a call on a path
\* that exists (the conflict) returns True, does not raise and leaves the
\* remote folder set unchanged.
C17_CreateFolderIdempotent ==
  [][(pc = "folder" /\ pc' # "folder") =>
       LET res == steps'[Len(steps')].res
       IN /\ (repo.name \notin folders /\ res \notin {"false", "error"}) =>
               /\ folder_ret' = "true"
               /\ folders' = folders \cup {repo.name}
          /\ (repo.name \in folders /\ res \notin {"false", "error"}) =>
               /\ folder_ret' = "true"
               /\ folders' = folders
          /\ folder_ret' = "raised" => res = "error"]_vars

C17_Witness ==
  /\ mode = "specific"
  /\ Len(attempts) = 2
  /\ attempts[1] = attempts[2]
  /\ pc = "upload"
  /\ Len(steps) = 3
  /\ steps[3] = [op |-> "folder", res |-> "conflict"]
  /\ folder_ret = "true"
  /\ folders = {attempts[1]}

\* C18: in backup_specific_repositories without a username the listing is
\* fetched exactly once per call, however many names are requested.
C18_ListingFetchedOnce ==
  (mode = "specific" /\ ~username /\ pc = "done" /\ Len(repo_names) >= 1) =>
     list_calls = 1

\* C19: a full run is sequential and order-preserving: the attempts follow
\* the listing order with the skipped repositories removed, the outcome of
\* one attempt is recorded before the next attempt begins, and
\* backup_details has the outcomes in the order of the attempts.
C19_SequentialInListingOrder ==
  mode = "all" =>
     LET expected == NamesOf(SelectSeq(repos, LAMBDA r : ~ShouldSkip(r)))
     IN /\ IsPrefix(attempts, expected)
        /\ IsPrefix(DetailNames, attempts)
        /\ Len(attempts) - Len(details) \in {0, 1}
        /\ InAttempt => Len(details) = Len(attempts) - 1
        /\ pc = "loop" => Len(details) = Len(attempts)

C19_Witness ==
  /\ mode = "all"
  /\ pc = "done"
  /\ Len(repos) = 2
  /\ repos[1].name > repos[2].name
  /\ attempts = <<repos[1].name, repos[2].name>>
  /\ Len(details) = 2
  /\ ~details[1].success /\ details[2].success

\* C20: within one attempt the steps follow clone, archive, folder-ensure,
\* upload: each is invoked at most once and in that order, the archive only
\* after a successful clone, folder-ensure only after the archive was written,
\* upload only after folder-ensure returned, and the attempt succeeds only
\* from the upload step.
C20_StepStateMachine ==
  /\ Len(steps) <= 4
  /\ \A i \in 1..Len(steps) : steps[i].op = StepOrder[i]
  /\ Len(steps) >= 2 => steps[1].res = "ok"
  /\ Len(steps) >= 3 => steps[2].res = "ok"
  /\ Len(steps) >= 4 => steps[3].res # "error"
  /\ pc \in {"tempdir", "clone"} => Len(steps) = 0
  /\ pc = "zip" => Len(steps) = 1
  /\ pc = "folder" => Len(steps) = 2
  /\ pc = "upload" => Len(steps) = 3
  /\ (pc = "returned" /\ success) =>
       /\ Len(steps) = 4
       /\ steps[4] = [op |-> "upload", res |-> "true"]

C20_Witness ==
  /\ pc = "returned"
  /\ success
  /\ Len(steps) = 4
  /\ steps[3] = [op |-> "folder", res |-> "created"]

\* ------------------------------------------------- GitHubClient.get_user_repositories

\* The backup manager is not running while a client call is followed alone.
BmIdle ==
  /\ mode = "idle"
  /\ remote = <<>>
  /\ username = FALSE
  /\ exclude_repos = {}
  /\ include_private = TRUE
  /\ repo_names = <<>>
  /\ pc = "idle"
  /\ results = InitResults
  /\ repos = <<>>
  /\ filtered_repos = <<>>
  /\ idx = 1
  /\ repo = NoRepo
  /\ temp_dir = FALSE
  /\ success = FALSE
  /\ steps = <<>>
  /\ attempts = <<>>
  /\ list_calls = 0
  /\ list_result = "none"
  /\ repo_result = "none"
  /\ folders = {}
  /\ folder_ret = "none"
  /\ exit_code = -1

\* Most pages the API holds, and most records on one page.
MaxPages == 2

PerPage == 1

\* The pages the API can hold; any of them may be empty. A record of a page is
\* the JSON object of a repository, kept to the fields name and private.
PageLists == SeqUpTo(SeqUpTo(Repository, PerPage), MaxPages)

\* response.json() of a successful request for page p: past the last page the
\* API answers with an empty list.
PageData(p) == IF p \in 1..Len(gh_pages) THEN gh_pages[p] ELSE <<>>

\* Repository(name=repo_data['name'], ..., private=repo_data['private'], ...)
RepositoryOf(repo_data) == [name |-> repo_data.name, private |-> repo_data.private]

\* Variant: the list is rebuilt from each page instead of extended.
AppendPageReplacing(acc, data) == [i \in 1..Len(data) |-> RepositoryOf(data[i])]

\* for repo_data in data: repos.append(Repository(...))
AppendPage(acc, data) == acc \o [i \in 1..Len(data) |-> RepositoryOf(data[i])]

InitPages ==
  /\ BmIdle
  /\ UpIdle
  /\ gh_pages \in PageLists
  /\ gh_pc = "loop"
  /\ page = 1
  /\ gh_repos = <<>>
  /\ gh_requests = <<>>
  /\ gh_ret = <<>>

\* One turn of the while loop: the request of page `page`, raise_for_status,
\* then either the break on an empty page or the appends and page += 1.
GetPage ==
  /\ gh_pc = "loop"
  /\ \E ok \in BOOLEAN :
       /\ gh_requests' = Append(gh_requests, [page |-> page, ok |-> ok])
       /\ IF ~ok
            THEN \* raise_for_status() raises out of get_user_repositories
                 /\ gh_pc' = "raised"
                 /\ UNCHANGED <<page, gh_repos>>
            ELSE IF PageData(page) = <<>>
                   THEN /\ gh_pc' = "break"
                        /\ UNCHANGED <<page, gh_repos>>
                   ELSE /\ gh_repos' = AppendPage(gh_repos, PageData(page))
                        /\ page' = page + 1
                        /\ gh_pc' = "loop"
  /\ UNCHANGED <<gh_pages, gh_ret>>
  /\ UNCHANGED <<bmvars, upvars>>

\* return repos
ReturnRepos ==
  /\ gh_pc = "break"
  /\ gh_ret' = gh_repos
  /\ gh_pc' = "returned"
  /\ UNCHANGED <<gh_pages, page, gh_repos, gh_requests>>
  /\ UNCHANGED <<bmvars, upvars>>

NextPages ==
  \/ GetPage
  \/ ReturnRepos

SpecPages == InitPages /\ [][NextPages]_vars

\* ------------------------------------------------- DropboxClient.upload_file

\* Sizes are counted in MiB.

\* Largest local file.
MaxFileSize == 160

\* if file_size <= 150 * 1024 * 1024
SimpleUploadLimit == 150

\* CHUNK_SIZE = 4 * 1024 * 1024
CHUNK_SIZE == 4

Min(a, b) == IF a <= b THEN a ELSE b

\* file_obj.read(n) at position pos: the bytes left, n at most
ReadLen(pos, n) == Min(n, file_size - pos)

\* Variant: the cursor keeps the offset it was created with.
CursorAfterAppendStale(cur, pos) == cur

\* cursor.offset = file_obj.tell()
CursorAfterAppend(cur, pos) == pos

InitUpload ==
  /\ BmIdle
  /\ GhIdle
  /\ file_size \in 0..MaxFileSize
  /\ up_pc = "open"
  /\ tell = 0
  /\ cursor = 0
  /\ up_calls = <<>>

\* open(local_path, 'rb'), os.path.getsize and the choice of the protocol; a
\* missing file raises FileNotFoundError and upload_file returns False.
OpenFile ==
  /\ up_pc = "open"
  /\ \E found \in BOOLEAN :
       up_pc' = IF ~found THEN "false"
                ELSE IF file_size <= SimpleUploadLimit THEN "simple"
                ELSE "start"
  /\ UNCHANGED <<file_size, tell, cursor, up_calls>>
  /\ UNCHANGED <<bmvars, ghvars>>

\* self.client.files_upload(f.read(), ...): the whole file in one call; an
\* ApiError makes upload_file return False.
SimpleUpload ==
  /\ up_pc = "simple"
  /\ \E ok \in BOOLEAN :
       /\ up_calls' = Append(up_calls, [op |-> "upload",
                                        len |-> file_size - tell,
                                        offset |-> 0])
       /\ tell' = file_size
       /\ up_pc' = IF ok THEN "true" ELSE "false"
  /\ UNCHANGED <<file_size, cursor>>
  /\ UNCHANGED <<bmvars, ghvars>>

\* files_upload_session_start(file_obj.read(CHUNK_SIZE)), then the cursor is
\* created with offset = file_obj.tell().
SessionStart ==
  /\ up_pc = "start"
  /\ \E ok \in BOOLEAN :
       /\ up_calls' = Append(up_calls, [op |-> "start",
                                        len |-> ReadLen(tell, CHUNK_SIZE),
                                        offset |-> 0])
       /\ tell' = tell + ReadLen(tell, CHUNK_SIZE)
       /\ IF ok
            THEN /\ cursor' = tell'
                 /\ up_pc' = "loop"
            ELSE /\ up_pc' = "false"
                 /\ UNCHANGED cursor
  /\ UNCHANGED file_size
  /\ UNCHANGED <<bmvars, ghvars>>

\* One test of the while condition and one turn of the loop: the finish call
\* and break when at most CHUNK_SIZE remains, else an append and the cursor
\* moved to file_obj.tell(). Leaving the loop makes upload_file return True.
SessionLoop ==
  /\ up_pc = "loop"
  /\ IF tell < file_size
       THEN LET remaining  == file_size - tell
                chunk_size == Min(CHUNK_SIZE, remaining)
            IN \E ok \in BOOLEAN :
                 /\ tell' = tell + ReadLen(tell, chunk_size)
                 /\ IF remaining <= CHUNK_SIZE
                      THEN /\ up_calls' = Append(up_calls,
                                [op |-> "finish",
                                 len |-> ReadLen(tell, chunk_size),
                                 offset |-> cursor])
                           /\ up_pc' = IF ok THEN "true" ELSE "false"
                           /\ UNCHANGED cursor
                      ELSE /\ up_calls' = Append(up_calls,
                                [op |-> "append",
                                 len |-> ReadLen(tell, chunk_size),
                                 offset |-> cursor])
                           /\ IF ok
                                THEN /\ cursor' = CursorAfterAppend(cursor, tell')
                                     /\ up_pc' = "loop"
                                ELSE /\ up_pc' = "false"
                                     /\ UNCHANGED cursor
       ELSE /\ up_pc' = "true"
            /\ UNCHANGED <<tell, cursor, up_calls>>
  /\ UNCHANGED file_size
  /\ UNCHANGED <<bmvars, ghvars>>

NextUpload ==
  \/ OpenFile
  \/ SimpleUpload
  \/ SessionStart
  \/ SessionLoop

SpecUpload == InitUpload /\ [][NextUpload]_vars

\* ------------------------------------------------- properties, C21 to C23

FirstEmptyPage ==
  CHOOSE k \in 1..(Len(gh_pages) + 1) :
    /\ PageData(k) = <<>>
    /\ \A j \in 1..(k - 1) : PageData(j) # <<>>

RECURSIVE PagesFlattened(_)
PagesFlattened(n) == IF n = 0 THEN <<>> ELSE PagesFlattened(n - 1) \o PageData(n)

RECURSIVE SentBefore(_)
SentBefore(i) == IF i <= 1 THEN 0 ELSE SentBefore(i - 1) + up_calls[i - 1].len

\* C21: a file of at most 150 MiB is sent by one single upload call that
\* carries the whole file; a larger file is sent by one session start, then
\* appends, then one finish as the last call, every chunk at most 4 MiB, the
\* chunks adding up to the file size when upload_file returns True, and the
\* cursor offset of each append and of the finish equal to the bytes sent
\* before that call.
C21_UploadProtocol ==
  LET n == Len(up_calls) IN
  /\ file_size <= 150 =>
       /\ n <= 1
       /\ \A i \in 1..n : up_calls[i].op = "upload" /\ up_calls[i].len = file_size
       /\ up_pc = "true" => n = 1
  /\ file_size > 150 =>
       /\ \A i \in 1..n :
            /\ i = 1 => up_calls[i].op = "start"
            /\ i > 1 => up_calls[i].op \in {"append", "finish"}
            /\ up_calls[i].op = "finish" => i = n
            /\ up_calls[i].len <= 4
            /\ up_calls[i].op \in {"append", "finish"} =>
                 up_calls[i].offset = SentBefore(i)
       /\ up_pc = "true" =>
            /\ n >= 2
            /\ up_calls[n].op = "finish"
            /\ SentBefore(n + 1) = file_size

C21_Witness ==
  /\ up_pc = "true"
  /\ file_size > 150
  /\ file_size % 4 # 0
  /\ Len(up_calls) > 3
  /\ up_calls[Len(up_calls)].op = "finish"
  /\ up_calls[Len(up_calls)].len < 4

====
